---- MODULE Spec2Model ----
(* Background asset lifecycle and transition engine of the clock/wallpaper   *)
(* App component (src/components/CalendarWidget.tsx, lines 369-1337).        *)
(*                                                                           *)
(* React state is modelled by one variable per useState cell.  Every async   *)
(* function invocation (triggerBgTransition, the ingestion handlers,         *)
(* restoreBackground) is a record that remembers the values its closure      *)
(* captured when it was created and the await it is suspended at.  Effects   *)
(* run as part of the step that changed their dependencies (Commit).         *)
EXTENDS Integers, Sequences, FiniteSets, TLC

\* ---------------------------------------------------------------- bounds
MaxTransitions == 2      \* triggerBgTransition invocations in one behaviour
MaxHandlers == 1         \* ingestion handler invocations in one behaviour
MaxRestores == 2         \* restoreBackground invocations in one behaviour
MaxToggles == 1          \* uses of the day/night switch in one behaviour
MaxReloads == 1          \* page reloads in one behaviour
MaxDownloads == 1        \* uses of the download button in one behaviour
MaxAiCalls == 2          \* generateContent requests in one behaviour

\* ------------------------------------------------------------- constants
KEY_BG == "current_bg_file"
KEY_BG_TYPE == "current_bg_type"

\* A source string is a sequence of tokens: scheme/prefix first, suffix last.
Null == <<"null">>                    \* JS null / undefined
DefaultBg == <<"https:", "picsum.photos/1920/1080?blur=2">>
DefaultNightBg == <<"https:", "images.unsplash.com/photo-1472552944129">>
DefaultBingApiUrl == <<"https:", "bing.img.run/rand.php">>

ImageFiles == {"f1"}                  \* image files the user can pick
VideoFiles == {"v1"}                  \* video files the user can pick
NetImages == {"n1"}                   \* bytes a remote fetch can return
Hour == 17                            \* new Date().getHours() in the session

\* -------------------------------------------------------------- variables
VARIABLES
  bgImage,            \* useState bgImage            (current source)
  bgType,             \* useState bgType             (current kind)
  nextBgImage,        \* useState nextBgImage        (next source or Null)
  nextBgType,         \* useState nextBgType
  isBgTransitioning,  \* useState isBgTransitioning  (fade flag)
  settings,           \* useState settings (day/night subset + bingApiUrl)
  timeHours,          \* useState time.hours
  db,                 \* IndexedDB object store 'assets': key -> value
  tr,                 \* pending triggerBgTransition invocations, oldest first
  hs,                 \* pending handler / restoreBackground invocations
  nTr,                \* triggerBgTransition invocations accepted so far
  nHs,                \* ingestion handler invocations so far
  nRs,                \* restoreBackground invocations so far
  nTg,                \* uses of the day/night switch so far
  lastReq,            \* newSource of the most recent accepted request
  mounted,            \* the component has mounted and run its effects
  revoked,            \* background object URLs passed to URL.revokeObjectURL
  nRl,                \* page reloads so far
  shown,              \* what the page showed when it was last reloaded
  downloads,          \* href of every download link clicked, oldest first
  img,                \* width, height of the picture compressImage decoded last
  canvas,             \* width, height of the canvas compressImage drew it on
  ai,                 \* generateAiBackground: requests sent, last call and outcome
  stored,             \* localStorage item 'clockSettings'
  quota,              \* localStorage.setItem succeeds (it throws otherwise)
  crashed,            \* an effect threw: React has unmounted the component
  hCap,               \* ingestion handler invocations the session is followed for
  tCap,               \* triggerBgTransition invocations the session is followed for
  isSettingsOpen,     \* the settings modal is rendered
  isSettingsClosing,  \* its closing animation runs
  showControls,       \* the control dock is on screen
  controlsTimeout,    \* the 3 s auto-hide timeout held by controlsTimeoutRef
  closingTimer        \* the 400 ms timeout of the safety effect: none yet,
                      \* pending, fired or cleared

vars == <<bgImage, bgType, nextBgImage, nextBgType, isBgTransitioning,
          settings, timeHours, db, tr, hs, nTr, nHs, nRs, nTg, lastReq, mounted,
          revoked, nRl, shown, downloads, img, canvas, ai, stored, quota, crashed,
          hCap, tCap, isSettingsOpen, isSettingsClosing, showControls, controlsTimeout,
          closingTimer>>

\* What no handler of the component but the download button touches: the
\* released object URLs, the bookkeeping of page reloads, the downloads,
\* compressImage's canvas, the calls of generateAiBackground, the room in
\* localStorage, how far a session is followed, the dock and the settings
\* modal.
page == <<revoked, nRl, shown, downloads, img, canvas, ai, quota, hCap, tCap,
          isSettingsOpen, isSettingsClosing, showControls, controlsTimeout, closingTimer>>

\* ------------------------------------------------------- pure functions
Last(s) == s[Len(s)]
Remove(s, i) == SubSeq(s, 1, i - 1) \o SubSeq(s, i + 1, Len(s))

\* isVideoUrl: '' -> false; data:video / blob: prefix or a video extension.
VideoExtensions == {".mp4", ".webm", ".ogg", ".MP4", ".WEBM", ".OGG"}
\* Variant: the extension is matched without the i flag.
isVideoUrlCaseSensitive(url) ==
  IF url = <<>> \/ url = Null THEN FALSE
  ELSE Head(url) = "data:video" \/ Head(url) = "blob:" \/ Last(url) \in {".mp4", ".webm", ".ogg"}

isVideoUrl(url) ==
  IF url = <<>> \/ url = Null THEN FALSE
  ELSE Head(url) = "data:video" \/ Head(url) = "blob:" \/ Last(url) \in VideoExtensions

\* isDayTime = time.hours >= 6 && time.hours < 18
\* Variant: the day window includes hour 18.
IsDayTimeThrough18(h) == h >= 6 /\ h <= 18

IsDayTime(h) == h >= 6 /\ h < 18

\* compressImage, img.onload: the canvas size for a decoded picture of
\* width x height.  Math.round of a non-negative quotient n / d is
\* floor(n / d + 1/2) = (2n + d) div 2d.
maxDim == 1920
MathRound(n, d) == (2 * n + d) \div (2 * d)

\* Variant: the quotient is truncated.
canvasSizeTruncated(width, height) ==
  IF width > maxDim \/ height > maxDim
  THEN IF width > height
       THEN <<maxDim, (height * maxDim) \div width>>
       ELSE <<(width * maxDim) \div height, maxDim>>
  ELSE <<width, height>>

canvasSize(width, height) ==
  IF width > maxDim \/ height > maxDim
  THEN IF width > height
       THEN <<maxDim, MathRound(height * maxDim, width)>>
       ELSE <<MathRound(width * maxDim, height), maxDim>>
  ELSE <<width, height>>

NoImage == <<0, 0>>                   \* before compressImage has run

\* generateAiBackground(prompt, apiKey): what the caller gets.
NoAiCall == [requests |-> 0, prompt |-> Null, apiKey |-> Null, outcome |-> Null]
MissingKeyError == <<"Error", "API Key is missing. Please configure it in settings.">>
NoImageError == <<"Error", "No image data received from Gemini.">>
RemoteError == <<"Error", "generateContent">>
Prompts == {<<"p1">>, <<"p2">>}
ApiKeys == {<<>>, Null, <<"k1">>, <<"k2">>}         \* '', undefined, two keys
\* generateContent: rejects, answers without inline image data, or answers
\* with an image part.
Responses == {"rejected", "noimage", "n1", "n2"}
inlineData(resp) == <<"data:image/png", ";base64,", resp>>

\* compressImage resolves with canvas.toDataURL('image/jpeg', 0.7): a JPEG
\* data URL that is a function of the decoded pixels.
compressImage(content) == <<"data:image/jpeg", content>>

\* FileReader.readAsDataURL keeps the file's bytes and mime type.
readAsDataURL(f) == <<"data:image/png", f>>

\* URL.createObjectURL returns a fresh blob: URL on every call: the n-th
\* call made by `who` (the video upload handler or restoreBackground).
createObjectURL(who, n) == <<"blob:", who, ToString(n)>>

\* `${url}${separator}t=${entropy}`: the request URL with a fresh parameter.
fetchUrlOf(url, n) == url \o <<"?t=", ToString(n)>>

\* controlsTimeoutRef and the timeout it names: none yet, pending, fired or
\* cleared; closOpen is the isSettingsOpen captured by the callback.
NoTimeout == [status |-> "none", closOpen |-> FALSE]

\* ------------------------------------------------------- localStorage
\* The item 'clockSettings': no item, a text JSON.parse rejects, or the JSON
\* text of an object.  `has` are the properties the object has, `value`
\* their values (Null / FALSE where the property is missing).
\* JSON.stringify leaves out a property whose value is undefined.
SettingsFields == {"enableDayNightMode", "dayBgUrl", "nightBgUrl", "bingApiUrl"}
DefaultSettings ==
  [enableDayNightMode |-> FALSE, dayBgUrl |-> DefaultBg, nightBgUrl |-> DefaultNightBg,
   bingApiUrl |-> DefaultBingApiUrl]
NoItem == [text |-> "none", has |-> {}, value |-> DefaultSettings]
BadItem == [text |-> "unparsable", has |-> {}, value |-> DefaultSettings]

stringify(st) ==
  [text |-> "json",
   has |-> {"enableDayNightMode"} \cup {f \in SettingsFields \ {"enableDayNightMode"} : st[f] # Null},
   value |-> st]

\* The weight of an item: the data URLs of compressed images it carries (a
\* data URL is the only long text a settings record can hold).  setItem
\* replaces the item when there is room in the storage, or when the new text
\* is no heavier than the one it replaces.
DataUrls(item) ==
  IF item.text # "json" THEN 0
  ELSE Cardinality({f \in {"dayBgUrl", "nightBgUrl"} :
                      item.value[f][1] = "data:image/jpeg"})
Fits(item, old) == quota \/ DataUrls(item) <= DataUrls(old)

\* Variant: a parsed object is returned as it is, without the migration
\* defaults.
loadWithoutMigration(item) ==
  IF item.text # "json" THEN DefaultSettings ELSE item.value

\* The settings initialiser: the parsed object with the defaults of the
\* day/night properties filled in where they are undefined; the default
\* settings when there is no item or JSON.parse throws.
load(item) ==
  IF item.text # "json" THEN DefaultSettings
  ELSE [enableDayNightMode |-> IF "enableDayNightMode" \in item.has
                               THEN item.value.enableDayNightMode ELSE FALSE,
        dayBgUrl |-> IF "dayBgUrl" \in item.has THEN item.value.dayBgUrl ELSE DefaultBg,
        nightBgUrl |-> IF "nightBgUrl" \in item.has THEN item.value.nightBgUrl
                       ELSE DefaultNightBg,
        bingApiUrl |-> IF "bingApiUrl" \in item.has THEN item.value.bingApiUrl ELSE Null]

\* ----------------------------------------------------------- the store
Absent == <<"absent">>
EmptyDb == [k \in {KEY_BG, KEY_BG_TYPE} |-> Absent]
Put(d, key, data) == [d EXCEPT ![key] = data]

\* ------------------------------------------------- transition invocations
\* pc: "preload" (awaiting load/error), "timer" (1500 ms timeout pending),
\*     "clear" (100 ms timeout pending), "done" (both timeouts have fired and
\*     a frame callback is still pending), "stuck" (the 1500 ms callback
\*     threw: the promise the invocation returned never resolves).
\* bgNull: the bgImage captured by the closure is null, so
\*     bgImage.startsWith in the 1500 ms callback throws a TypeError.
\* raf: "idle", "pending" (the nested requestAnimationFrame callbacks are
\*      registered and have not both run), "done".
\* id, origin, persisted ("written": the caller put both store keys,
\* "failed": it tried and a put failed, "never": it did not try) and
\* modeAtReq are bookkeeping about the caller.
RECURSIVE MaxOf(_, _, _)
MaxOf(sq, field, n) == IF n = 0 THEN 0
                       ELSE LET m == MaxOf(sq, field, n - 1)
                            IN IF sq[n][field] > m THEN sq[n][field] ELSE m
\* Invocations are numbered in the order they are accepted and appended, so
\* the newest pending one is the last: LastId is the number of invocations
\* accepted so far, given the pending ones and the earlier count.
LastId(sq, count) == IF sq # <<>> /\ Last(sq).id > count THEN Last(sq).id ELSE count

NewTransition(id, newSource, type, closBg, origin, persisted, modeAtReq) ==
  [id |-> id, src |-> newSource, type |-> type, pc |-> "preload", raf |-> "idle",
   failed |-> FALSE, seq |-> 0, bgNull |-> (closBg = Null), origin |-> origin,
   persisted |-> persisted, modeAtReq |-> modeAtReq]

\* triggerBgTransition up to its first await: the guard compares with the
\* bgImage captured by the useCallback closure the caller holds.
triggerBgTransition(trs, newSource, type, closBg, origin, persisted, modeAtReq) ==
  IF newSource = closBg THEN trs
  ELSE Append(trs, NewTransition(LastId(trs, nTr) + 1, newSource, type, closBg, origin,
                                 persisted, modeAtReq))

\* Registration order of the pending timeouts.
NextSeq == MaxOf(tr, "seq", Len(tr)) + 1

\* ----------------------------------------------------------------- effects
\* Day/night effect (deps: mode, both URLs, isDayTime, bgImage, nextBgImage,
\* triggerBgTransition).
\* Variant: the effect compares the target with bgImage only.
DayNightEffectIgnoresNext(bg, nx, st, th, trs) ==
  IF st.enableDayNightMode
  THEN LET targetUrl == IF IsDayTime(th) THEN st.dayBgUrl ELSE st.nightBgUrl
       IN IF targetUrl # <<>> /\ targetUrl # Null /\ bg # targetUrl
          THEN triggerBgTransition(trs, targetUrl,
                 IF isVideoUrl(targetUrl) THEN "video" ELSE "image",
                 bg, "scheduler", "never", TRUE)
          ELSE trs
  ELSE trs

TargetUrl(st, th) == IF IsDayTime(th) THEN st.dayBgUrl ELSE st.nightBgUrl

DayNightEffect(bg, nx, st, th, trs) ==
  IF st.enableDayNightMode
  THEN LET targetUrl == TargetUrl(st, th)
       IN IF targetUrl # <<>> /\ targetUrl # Null /\ bg # targetUrl /\ nx # targetUrl
          THEN triggerBgTransition(trs, targetUrl,
                 IF isVideoUrl(targetUrl) THEN "video" ELSE "image",
                 bg, "scheduler", "never", TRUE)
          ELSE trs
  ELSE trs

\* Handler invocations.  closBg / closMode: bgImage and enableDayNightMode
\* as captured by the closure; put1: the KEY_BG put was performed.
NewHandler(id, kind, pc, closBg, closMode, val, url, type) ==
  [id |-> id, kind |-> kind, pc |-> pc, closBg |-> closBg, closMode |-> closMode,
   val |-> val, url |-> url, type |-> type, put1 |-> FALSE]

\* restoreBackground effect (deps: enableDayNightMode).
RestoreEffect(st, bg, hdl, id) ==
  IF st.enableDayNightMode THEN hdl
  ELSE Append(hdl, NewHandler(id, "restore", "readType", bg, FALSE, Null, Null, "undefined"))

\* Save-settings effect (deps: settings): localStorage.setItem with the
\* JSON text of the settings.  setItem throws when the storage has no room
\* for the text; nothing catches it, so the error leaves the effect and
\* React unmounts the component.
SaveSettings(changed, st) ==
  /\ stored' = IF changed /\ Fits(stringify(st), stored) THEN stringify(st) ELSE stored
  /\ crashed' = (changed /\ ~Fits(stringify(st), stored))

\* One render: the new values of the state cells are committed and the
\* effects whose dependencies changed run.
\* `used`: how many handler numbers the step itself consumed.
Commit(bg, bt, nx, nt, fl, st, th, trs, hdl, used) ==
  LET dnChanged == <<st.enableDayNightMode, st.dayBgUrl, st.nightBgUrl, IsDayTime(th), bg, nx>>
                   # <<settings.enableDayNightMode, settings.dayBgUrl, settings.nightBgUrl,
                       IsDayTime(timeHours), bgImage, nextBgImage>>
      trs2 == IF dnChanged THEN DayNightEffect(bg, nx, st, th, trs) ELSE trs
      hdl2 == IF st.enableDayNightMode # settings.enableDayNightMode
              THEN RestoreEffect(st, bg, hdl, nRs + 1) ELSE hdl
      accepted == LastId(trs2, nTr)
  IN /\ ~crashed
     /\ accepted <= tCap
     /\ nHs + used <= hCap
     /\ nRs + (Len(hdl2) - Len(hdl)) <= MaxRestores
     /\ bgImage' = bg
     /\ bgType' = bt
     /\ nextBgImage' = nx
     /\ nextBgType' = nt
     /\ isBgTransitioning' = fl
     /\ settings' = st
     /\ timeHours' = th
     /\ tr' = trs2
     /\ hs' = hdl2
     /\ nTr' = accepted
     /\ nHs' = nHs + used
     /\ nRs' = nRs + (Len(hdl2) - Len(hdl))
     /\ lastReq' = IF accepted > nTr THEN Last(trs2).src ELSE lastReq
     /\ SaveSettings(st # settings, st)

\* Commit with the transition-state cells, settings and time unchanged.
CommitCalls(trs, hdl) ==
  Commit(bgImage, bgType, nextBgImage, nextBgType, isBgTransitioning,
         settings, timeHours, trs, hdl, 0)

\* The same for a step that starts ingestion handler number NextHandler.
NextHandler == nHs + 1
CommitNewHandler(st, hdl) ==
  Commit(bgImage, bgType, nextBgImage, nextBgType, isBgTransitioning,
         st, timeHours, tr, hdl, 1)

\* Commit a settings change only.
CommitSettings(st, hdl) ==
  Commit(bgImage, bgType, nextBgImage, nextBgType, isBgTransitioning, st, timeHours, tr, hdl, 0)

\* ------------------------------------------------------------------- Init
\* `shown` before the first reload.
NotReloaded == [src |-> Null, type |-> "none", settled |-> FALSE]

InitialDbs ==
  { EmptyDb,
    [k \in {KEY_BG, KEY_BG_TYPE} |-> IF k = KEY_BG THEN compressImage("f1") ELSE <<"image">>],
    [k \in {KEY_BG, KEY_BG_TYPE} |-> IF k = KEY_BG THEN <<"Blob", "v1">> ELSE <<"video">>] }

Init ==
  /\ bgImage = DefaultBg
  /\ bgType = "image"
  /\ nextBgImage = Null
  /\ nextBgType = "image"
  /\ isBgTransitioning = FALSE
  /\ \E m \in BOOLEAN :
       settings = [enableDayNightMode |-> m, dayBgUrl |-> DefaultBg,
                   nightBgUrl |-> DefaultNightBg, bingApiUrl |-> DefaultBingApiUrl]
  /\ timeHours = 0
  /\ db \in InitialDbs
  /\ tr = <<>>
  /\ hs = <<>>
  /\ nTr = 0
  /\ nHs = 0
  /\ nRs = 0
  /\ nTg = 0
  /\ lastReq = Null
  /\ mounted = FALSE
  /\ revoked = {}
  /\ nRl = 0
  /\ shown = NotReloaded
  /\ downloads = <<>>
  /\ img = NoImage
  /\ canvas = NoImage
  /\ ai = NoAiCall
  /\ stored = stringify(settings)
  /\ quota = TRUE
  /\ hCap = MaxHandlers
  /\ tCap = MaxTransitions
  /\ isSettingsOpen = FALSE
  /\ isSettingsClosing = FALSE
  /\ showControls = TRUE
  /\ controlsTimeout = NoTimeout
  /\ closingTimer = "none"
  /\ crashed = FALSE

\* Mount: every effect runs once with the initial state.
Mount ==
  /\ ~mounted
  /\ ~crashed
  /\ mounted' = TRUE
  /\ SaveSettings(TRUE, settings)
  /\ LET trs2 == DayNightEffect(bgImage, nextBgImage, settings, timeHours, tr)
         hdl2 == RestoreEffect(settings, bgImage, hs, nRs + 1)
     IN /\ tr' = trs2
        /\ hs' = hdl2
        /\ nTr' = LastId(trs2, nTr)
        /\ nRs' = nRs + Len(hdl2)
        /\ lastReq' = IF LastId(trs2, nTr) > nTr THEN Last(trs2).src ELSE lastReq
  /\ UNCHANGED <<bgImage, bgType, nextBgImage, nextBgType, isBgTransitioning,
                 settings, timeHours, db, nHs, nTg, page>>

\* ------------------------------------------------------ transition engine
\* The awaited preload promise resolves (onload / onloadeddata when ok,
\* onerror otherwise); steps 2-4 of triggerBgTransition run.
\* Variant: the flag is raised in the step that populates nextBgImage.
PreloadResolveFadesAtOnce(i, ok) ==
  /\ tr[i].pc = "preload"
  /\ Commit(bgImage, bgType, tr[i].src, tr[i].type, TRUE, settings, timeHours,
            [tr EXCEPT ![i].pc = "timer", ![i].raf = "done", ![i].failed = ~ok,
                       ![i].seq = NextSeq], hs, 0)
  /\ UNCHANGED <<db, nTg, mounted, page>>

PreloadResolve(i, ok) ==
  /\ tr[i].pc = "preload"
  /\ Commit(bgImage, bgType, tr[i].src, tr[i].type, isBgTransitioning, settings, timeHours,
            [tr EXCEPT ![i].pc = "timer", ![i].raf = "pending", ![i].failed = ~ok,
                       ![i].seq = NextSeq], hs, 0)
  /\ UNCHANGED <<db, nTg, mounted, page>>

PreloadDone(i) == PreloadResolve(i, TRUE)

\* Variant: the error event rejects and the invocation ends there.
PreloadErrorAborts(i) ==
  /\ tr[i].pc = "preload"
  /\ CommitCalls([tr EXCEPT ![i].pc = "aborted", ![i].failed = TRUE], hs)
  /\ UNCHANGED <<db, nTg, mounted, page>>

PreloadError(i) == PreloadResolve(i, FALSE)

\* The nested requestAnimationFrame callbacks.  The outer one only registers
\* the inner one and touches no state cell, so the pair is one step, taken
\* when the second frame is rendered: setIsBgTransitioning(true).  It is the
\* invocation's last callback when both timeouts have fired already.
Frames(i) ==
  /\ tr[i].raf = "pending"
  /\ Commit(bgImage, bgType, nextBgImage, nextBgType, TRUE, settings, timeHours,
            IF tr[i].pc = "done" THEN Remove(tr, i) ELSE [tr EXCEPT ![i].raf = "done"], hs, 0)
  /\ UNCHANGED <<db, nTg, mounted, page>>

\* Variant: the 1500 ms timeout sets bgImage and leaves bgType as it is.
TimerFireKeepsKind(i) ==
  /\ tr[i].pc = "timer"
  /\ \A j \in DOMAIN tr : tr[j].pc = "timer" => tr[j].seq >= tr[i].seq
  /\ IF tr[i].bgNull
     THEN CommitCalls([tr EXCEPT ![i].pc = "stuck"], hs)
     ELSE Commit(tr[i].src, bgType, nextBgImage, nextBgType, FALSE, settings, timeHours,
                 [tr EXCEPT ![i].pc = "clear"], hs, 0)
  /\ UNCHANGED <<db, nTg, mounted, page>>

\* The 1500 ms timeout: timeouts of equal delay fire in registration order.
\* Frame callbacks and timeouts are separate queues: a document that is not
\* being rendered runs its timeouts and holds its frame callbacks back.
TimerFire(i) ==
  /\ tr[i].pc = "timer"
  /\ \A j \in DOMAIN tr : tr[j].pc = "timer" => tr[j].seq >= tr[i].seq
  /\ IF tr[i].bgNull
     THEN CommitCalls([tr EXCEPT ![i].pc = "stuck"], hs)
     ELSE Commit(tr[i].src, tr[i].type, nextBgImage, nextBgType, FALSE, settings, timeHours,
                 [tr EXCEPT ![i].pc = "clear"], hs, 0)
  /\ UNCHANGED <<db, nTg, mounted, page>>

\* Variant: the 100 ms timeout leaves nextBgImage as it is.
ClearNextKeepsNext(i) ==
  /\ tr[i].pc = "clear"
  /\ \A j \in DOMAIN tr : tr[j].pc \in {"timer", "clear"} => tr[j].seq >= tr[i].seq
  /\ CommitCalls(IF tr[i].raf = "done" THEN Remove(tr, i) ELSE [tr EXCEPT ![i].pc = "done"], hs)
  /\ UNCHANGED <<db, nTg, mounted, page>>

\* The 100 ms timeout: setNextBgImage(null).  The invocation is over once
\* its frame callbacks have run as well.
ClearNext(i) ==
  /\ tr[i].pc = "clear"
  /\ \A j \in DOMAIN tr : tr[j].pc \in {"timer", "clear"} => tr[j].seq >= tr[i].seq
  /\ Commit(bgImage, bgType, Null, nextBgType, isBgTransitioning, settings, timeHours,
            IF tr[i].raf = "done" THEN Remove(tr, i) ELSE [tr EXCEPT ![i].pc = "done"], hs, 0)
  /\ UNCHANGED <<db, nTg, mounted, page>>

\* ------------------------------------------------------- ingestion paths
SetSlot(st, isDay, url) ==
  IF isDay THEN [st EXCEPT !.dayBgUrl = url] ELSE [st EXCEPT !.nightBgUrl = url]

\* handleImageFileChange up to `await compressImage(file)`.
UploadImage(f) ==
  /\ mounted
  /\ CommitNewHandler(settings, Append(hs, NewHandler(NextHandler, "image", "compress",
                        bgImage, settings.enableDayNightMode, <<"File", f>>, Null, "image")))
  /\ UNCHANGED <<db, nTg, mounted, page>>

\* compressImage settles.  Resolved: the branch on the captured settings.
\* Rejected: the catch block starts a FileReader.
CompressSettle(h, ok) ==
  /\ hs[h].kind = "image"
  /\ hs[h].pc = "compress"
  /\ LET e == compressImage(hs[h].val[2])
     IN IF ok
        THEN IF ~hs[h].closMode
             THEN CommitCalls(tr, [hs EXCEPT ![h].pc = "save1", ![h].val = e, ![h].url = e])
             ELSE CommitSettings(SetSlot(settings, IsDayTime(Hour), e), Remove(hs, h))
        ELSE CommitCalls(tr, [hs EXCEPT ![h].pc = "read"])
  /\ UNCHANGED <<db, nTg, mounted, page>>

CompressDone(h) == CompressSettle(h, TRUE)
CompressFail(h) == CompressSettle(h, FALSE)

\* reader.onloadend of the compression-failure fallback.  The event fires
\* after a successful read (reader.result is the data URL) and after a
\* failed one (reader.result is null).
ReaderLoad(h, ok) ==
  /\ hs[h].kind = "image"
  /\ hs[h].pc = "read"
  /\ LET result == IF ok THEN readAsDataURL(hs[h].val[2]) ELSE Null
     IN CommitCalls(triggerBgTransition(tr, result, "image", hs[h].closBg,
                                        "imageFallback", "never", settings.enableDayNightMode),
                    Remove(hs, h))
  /\ UNCHANGED <<db, nTg, mounted, page>>

ReaderLoadEnd(h) == \E ok \in BOOLEAN : ReaderLoad(h, ok)

\* Variant: saveAssetToDB returns without store.put.
SaveAssetSkipsPut(h, ok) ==
  /\ hs[h].pc = "save1"
  /\ db' = db
  /\ CommitCalls(tr, [hs EXCEPT ![h].pc = "save2", ![h].put1 = ok])
  /\ UNCHANGED <<nTg, mounted, page>>

\* saveAssetToDB(KEY_BG, data): the database opens and store.put runs, or
\* the open fails and the error is logged.
SaveAsset(h, ok) ==
  /\ hs[h].pc = "save1"
  /\ db' = IF ok THEN Put(db, KEY_BG, hs[h].val) ELSE db
  /\ CommitCalls(tr, [hs EXCEPT ![h].pc = "save2", ![h].put1 = ok])
  /\ UNCHANGED <<nTg, mounted, page>>

SaveAssetOk(h) == SaveAsset(h, TRUE)
SaveAssetFail(h) == SaveAsset(h, FALSE)

\* saveAssetToDB(KEY_BG_TYPE, type), then the handler calls the
\* triggerBgTransition it captured.
SaveType(h, ok) ==
  /\ hs[h].pc = "save2"
  /\ db' = IF ok THEN Put(db, KEY_BG_TYPE, <<hs[h].type>>) ELSE db
  /\ CommitCalls(triggerBgTransition(tr, hs[h].url, hs[h].type, hs[h].closBg, hs[h].kind,
                                     IF hs[h].put1 /\ ok THEN "written" ELSE "failed",
                                     settings.enableDayNightMode),
                 Remove(hs, h))
  /\ UNCHANGED <<nTg, mounted, page>>

SaveTypeOk(h) == SaveType(h, TRUE)
SaveTypeFail(h) == SaveType(h, FALSE)

\* handleVideoFileChange up to its first await.
UploadVideo(f) ==
  /\ mounted
  /\ LET videoUrl == createObjectURL("upload", NextHandler)
     IN IF ~settings.enableDayNightMode
        THEN CommitNewHandler(settings, Append(hs, NewHandler(NextHandler, "video", "save1",
                                bgImage, FALSE, <<"Blob", f>>, videoUrl, "video")))
        ELSE CommitNewHandler(SetSlot(settings, IsDayTime(Hour), videoUrl), hs)
  /\ UNCHANGED <<db, nTg, mounted, page>>

\* handleDayNightUpload (the two slot inputs are rendered in day/night mode
\* only): a file whose type starts with 'video' goes to the slot as an
\* object URL at once; any other file goes through compressImage(file).then.
\* Variant: handleDayNightUpload sends every file through compressImage.
SlotUploadCompressesAll(f, isDaySlot) ==
  /\ mounted
  /\ settings.enableDayNightMode
  /\ CommitNewHandler(settings,
       Append(hs, NewHandler(NextHandler, IF isDaySlot THEN "daySlot" ELSE "nightSlot",
                             "compress", bgImage, TRUE, <<"File", f>>, Null, "image")))
  /\ UNCHANGED <<db, nTg, mounted, page>>

SlotUpload(f, isDaySlot) ==
  /\ mounted
  /\ settings.enableDayNightMode
  /\ IF f \in VideoFiles
     THEN CommitNewHandler(SetSlot(settings, isDaySlot, createObjectURL("slot", NextHandler)), hs)
     ELSE CommitNewHandler(settings,
            Append(hs, NewHandler(NextHandler, IF isDaySlot THEN "daySlot" ELSE "nightSlot",
                                  "compress", bgImage, TRUE, <<"File", f>>, Null, "image")))
  /\ UNCHANGED <<db, nTg, mounted, page>>

\* compressImage(file) settles for a slot upload: the .then callback writes
\* the slot; a rejection has no handler and changes nothing.
SlotCompressSettle(h, ok) ==
  /\ hs[h].kind \in {"daySlot", "nightSlot"}
  /\ hs[h].pc = "compress"
  /\ IF ok
     THEN CommitSettings(SetSlot(settings, hs[h].kind = "daySlot", compressImage(hs[h].val[2])),
                         Remove(hs, h))
     ELSE CommitCalls(tr, Remove(hs, h))
  /\ UNCHANGED <<db, nTg, mounted, page>>

SlotCompressDone(h) == SlotCompressSettle(h, TRUE)
SlotCompressFail(h) == SlotCompressSettle(h, FALSE)

\* handleDownloadImage: an alert for a video background, otherwise a link to
\* bgImage is clicked.  No state cell is written.
Download ==
  /\ mounted
  /\ ~crashed
  /\ Len(downloads) < MaxDownloads
  /\ bgType # "video"
  /\ downloads' = Append(downloads, bgImage)
  /\ UNCHANGED <<bgImage, bgType, nextBgImage, nextBgType, isBgTransitioning, settings,
                 timeHours, db, tr, hs, nTr, nHs, nRs, nTg, lastReq, mounted,
                 revoked, nRl, shown, img, canvas, ai, stored, quota, crashed, hCap, tCap,
                 isSettingsOpen, isSettingsClosing, showControls, controlsTimeout, closingTimer>>

\* compressImage, img.onload for a picture of w x h pixels: the canvas is
\* sized and the picture drawn on it.
ImgOnload(w, h) ==
  /\ img' = <<w, h>>
  /\ canvas' = canvasSize(w, h)
  /\ UNCHANGED <<bgImage, bgType, nextBgImage, nextBgType, isBgTransitioning, settings,
                 timeHours, db, tr, hs, nTr, nHs, nRs, nTg, lastReq, mounted,
                 revoked, nRl, shown, downloads, ai, stored, quota, crashed, hCap, tCap,
                 isSettingsOpen, isSettingsClosing, showControls, controlsTimeout, closingTimer>>

\* Variant: the request is sent before the key is looked at.
GenerateRequestsFirst(prompt, apiKey) ==
  /\ ai.requests < MaxAiCalls
  /\ ai' = [requests |-> ai.requests + 1, prompt |-> prompt, apiKey |-> apiKey,
             outcome |-> IF apiKey = <<>> \/ apiKey = Null THEN MissingKeyError
                         ELSE RemoteError]
  /\ UNCHANGED <<bgImage, bgType, nextBgImage, nextBgType, isBgTransitioning, settings,
                 timeHours, db, tr, hs, nTr, nHs, nRs, nTg, lastReq, mounted,
                 revoked, nRl, shown, downloads, img, canvas, stored, quota, crashed, hCap, tCap,
                 isSettingsOpen, isSettingsClosing, showControls, controlsTimeout, closingTimer>>

\* generateAiBackground: the test of apiKey, then the client and the
\* generateContent request, whose answer is searched for an image part.
Generate(prompt, apiKey) ==
  /\ IF apiKey = <<>> \/ apiKey = Null
     THEN ai' = [requests |-> ai.requests, prompt |-> prompt, apiKey |-> apiKey,
                 outcome |-> MissingKeyError]
     ELSE /\ ai.requests < MaxAiCalls
          /\ \E resp \in Responses :
               ai' = [requests |-> ai.requests + 1, prompt |-> prompt, apiKey |-> apiKey,
                      outcome |-> IF resp = "rejected" THEN RemoteError
                                  ELSE IF resp = "noimage" THEN NoImageError
                                  ELSE inlineData(resp)]
  /\ UNCHANGED <<bgImage, bgType, nextBgImage, nextBgType, isBgTransitioning, settings,
                 timeHours, db, tr, hs, nTr, nHs, nRs, nTg, lastReq, mounted,
                 revoked, nRl, shown, downloads, img, canvas, stored, quota, crashed, hCap, tCap,
                 isSettingsOpen, isSettingsClosing, showControls, controlsTimeout, closingTimer>>

\* handleFetchBg up to `await fetch(...)`.
FetchBg ==
  /\ mounted
  /\ settings.bingApiUrl # <<>> /\ settings.bingApiUrl # Null
  /\ CommitNewHandler(settings, Append(hs, NewHandler(NextHandler, "fetch", "fetch", bgImage,
                        settings.enableDayNightMode, Null,
                        fetchUrlOf(settings.bingApiUrl, NextHandler), "image")))
  /\ UNCHANGED <<db, nTg, mounted, page>>

\* fetch + blob + compressImage settle: with the compressed bytes, or by
\* throwing into the catch block, which substitutes fetchUrl.
FetchSettle(h, src) ==
  /\ hs[h].kind = "fetch"
  /\ hs[h].pc = "fetch"
  /\ IF ~hs[h].closMode
     THEN CommitCalls(tr, [hs EXCEPT ![h].pc = "save1", ![h].val = src, ![h].url = src])
     ELSE CommitSettings(SetSlot(settings, IsDayTime(Hour), src), Remove(hs, h))
  /\ UNCHANGED <<db, nTg, mounted, page>>

\* Variant: the catch block only logs the failure.
FetchFailGivesUp(h) ==
  /\ hs[h].kind = "fetch"
  /\ hs[h].pc = "fetch"
  /\ CommitCalls(tr, Remove(hs, h))
  /\ UNCHANGED <<db, nTg, mounted, page>>

FetchDone(h) == \E n \in NetImages : FetchSettle(h, compressImage(n))
FetchFail(h) == FetchSettle(h, hs[h].url)

\* ------------------------------------------------------------ restoration
\* `await getAssetFromDB(KEY_BG_TYPE)`: "ok" reads the key (undefined when
\* absent), "openfail" is caught inside getAssetFromDB (undefined),
\* "readfail" rejects and restoreBackground's catch ends the restoration.
ReadType(h, outcome) ==
  /\ hs[h].kind = "restore"
  /\ hs[h].pc = "readType"
  /\ LET savedType == IF outcome = "ok" /\ db[KEY_BG_TYPE] # Absent
                      THEN db[KEY_BG_TYPE][1] ELSE "undefined"
     IN CommitCalls(tr, IF outcome = "readfail" THEN Remove(hs, h)
                        ELSE [hs EXCEPT ![h].pc = "readAsset", ![h].type = savedType])
  /\ UNCHANGED <<db, nTg, mounted, page>>

\* Variant: restoreBackground ignores the stored kind.
ReadAssetAsImage(h, outcome) ==
  /\ hs[h].kind = "restore"
  /\ hs[h].pc = "readAsset"
  /\ LET savedAsset == IF outcome = "ok" /\ db[KEY_BG] # Absent THEN db[KEY_BG] ELSE Null
         url == IF savedAsset = Null THEN <<>>
                ELSE IF Head(savedAsset) = "Blob" THEN createObjectURL("restore", hs[h].id)
                ELSE savedAsset
     IN IF outcome # "readfail" /\ url # <<>>
        THEN CommitCalls(triggerBgTransition(tr, url, "image", hs[h].closBg, "restore", "written",
                                             settings.enableDayNightMode),
                         Remove(hs, h))
        ELSE CommitCalls(tr, Remove(hs, h))
  /\ UNCHANGED <<db, nTg, mounted, page>>

\* Variant: restoreBackground assigns the restored asset with setBgImage.
ReadAssetSetsCurrent(h, outcome) ==
  /\ hs[h].kind = "restore"
  /\ hs[h].pc = "readAsset"
  /\ LET savedAsset == IF outcome = "ok" /\ db[KEY_BG] # Absent THEN db[KEY_BG] ELSE Null
         url == IF savedAsset = Null THEN <<>>
                ELSE IF Head(savedAsset) = "Blob" THEN createObjectURL("restore", hs[h].id)
                ELSE savedAsset
         type == IF hs[h].type = "undefined" THEN "image" ELSE hs[h].type
     IN IF outcome # "readfail" /\ url # <<>>
        THEN Commit(url, type, nextBgImage, nextBgType, isBgTransitioning, settings, timeHours,
                    tr, Remove(hs, h), 0)
        ELSE CommitCalls(tr, Remove(hs, h))
  /\ UNCHANGED <<db, nTg, mounted, page>>

\* `await getAssetFromDB(KEY_BG)` and the rest of restoreBackground.
ReadAsset(h, outcome) ==
  /\ hs[h].kind = "restore"
  /\ hs[h].pc = "readAsset"
  /\ LET savedAsset == IF outcome = "ok" /\ db[KEY_BG] # Absent THEN db[KEY_BG] ELSE Null
         url == IF savedAsset = Null THEN <<>>
                ELSE IF Head(savedAsset) = "Blob" THEN createObjectURL("restore", hs[h].id)
                ELSE savedAsset
         type == IF hs[h].type = "undefined" THEN "image" ELSE hs[h].type
     IN IF outcome # "readfail" /\ url # <<>>
        THEN CommitCalls(triggerBgTransition(tr, url, type, hs[h].closBg, "restore", "written",
                                             settings.enableDayNightMode),
                         Remove(hs, h))
        ELSE CommitCalls(tr, Remove(hs, h))
  /\ UNCHANGED <<db, nTg, mounted, page>>

StoreOutcomes == {"ok", "openfail", "readfail"}

\* ---------------------------------------------------- settings and clock
\* The day/night switch of the settings panel.
ToggleDayNight ==
  /\ mounted
  /\ nTg < MaxToggles
  /\ nTg' = nTg + 1
  /\ CommitSettings([settings EXCEPT !.enableDayNightMode = ~settings.enableDayNightMode], hs)
  /\ UNCHANGED <<db, mounted, page>>

\* The 1 s interval: setTime with the wall-clock hour.  The hour cell is 0
\* until the first tick; later ticks within the hour change no modelled cell.
TickTo(h) ==
  /\ mounted
  /\ timeHours # h
  /\ Commit(bgImage, bgType, nextBgImage, nextBgType, isBgTransitioning, settings, h, tr, hs, 0)
  /\ UNCHANGED <<db, nTg, mounted, page>>

Tick == TickTo(Hour)

\* The page is reloaded: every state cell is initialised again and pending
\* callbacks are gone; the IndexedDB store and the settings (written to
\* localStorage by the save-settings effect and read back by the settings
\* initialiser) survive.
Reload ==
  /\ mounted
  /\ nRl < MaxReloads
  /\ nRl' = nRl + 1
  /\ shown' = [src |-> bgImage, type |-> bgType, settled |-> tr = <<>> /\ hs = <<>>]
  /\ bgImage' = DefaultBg
  /\ bgType' = "image"
  /\ nextBgImage' = Null
  /\ nextBgType' = "image"
  /\ isBgTransitioning' = FALSE
  /\ timeHours' = 0
  /\ tr' = <<>>
  /\ hs' = <<>>
  /\ lastReq' = Null
  /\ mounted' = FALSE
  /\ settings' = load(stored)       \* the settings initialiser of the new page
  /\ crashed' = FALSE
  /\ UNCHANGED <<db, nTr, nHs, nRs, nTg, revoked, downloads, img, canvas, ai, stored, quota, hCap, tCap,
                 isSettingsOpen, isSettingsClosing, showControls, controlsTimeout, closingTimer>>

Next ==
  \/ Mount
  \/ ToggleDayNight
  \/ Tick
  \/ \E f \in ImageFiles : UploadImage(f)
  \/ \E f \in VideoFiles : UploadVideo(f)
  \/ FetchBg
  \/ \E h \in DOMAIN hs : CompressDone(h)
  \/ \E h \in DOMAIN hs : CompressFail(h)
  \/ \E h \in DOMAIN hs : ReaderLoadEnd(h)
  \/ \E h \in DOMAIN hs : SaveAssetOk(h)
  \/ \E h \in DOMAIN hs : SaveAssetFail(h)
  \/ \E h \in DOMAIN hs : SaveTypeOk(h)
  \/ \E h \in DOMAIN hs : SaveTypeFail(h)
  \/ \E h \in DOMAIN hs : FetchDone(h)
  \/ \E h \in DOMAIN hs : FetchFail(h)
  \/ \E h \in DOMAIN hs, o \in StoreOutcomes : ReadType(h, o)
  \/ \E h \in DOMAIN hs, o \in StoreOutcomes : ReadAsset(h, o)
  \/ \E i \in DOMAIN tr : PreloadDone(i)
  \/ \E i \in DOMAIN tr : PreloadError(i)
  \/ \E i \in DOMAIN tr : Frames(i)
  \/ \E i \in DOMAIN tr : TimerFire(i)
  \/ \E i \in DOMAIN tr : ClearNext(i)

Spec == Init /\ [][Next]_vars

\* Sessions in which the day/night switch is left as it was loaded: every
\* user-initiated handler of the component (the two slot inputs of the
\* settings panel and the download button included), the day/night effect,
\* restoration and the transition callbacks.
UserNext ==
  \/ Mount
  \/ Tick
  \/ \E f \in ImageFiles : UploadImage(f)
  \/ \E f \in VideoFiles : UploadVideo(f)
  \/ FetchBg
  \/ \E h \in DOMAIN hs : CompressDone(h)
  \/ \E h \in DOMAIN hs : CompressFail(h)
  \/ \E h \in DOMAIN hs : ReaderLoadEnd(h)
  \/ \E h \in DOMAIN hs : SaveAssetOk(h)
  \/ \E h \in DOMAIN hs : SaveAssetFail(h)
  \/ \E h \in DOMAIN hs : SaveTypeOk(h)
  \/ \E h \in DOMAIN hs : SaveTypeFail(h)
  \/ \E h \in DOMAIN hs : FetchDone(h)
  \/ \E h \in DOMAIN hs : FetchFail(h)
  \/ \E h \in DOMAIN hs, o \in StoreOutcomes : ReadType(h, o)
  \/ \E h \in DOMAIN hs, o \in StoreOutcomes : ReadAsset(h, o)
  \/ \E i \in DOMAIN tr : PreloadDone(i)
  \/ \E i \in DOMAIN tr : PreloadError(i)
  \/ \E i \in DOMAIN tr : Frames(i)
  \/ \E i \in DOMAIN tr : TimerFire(i)
  \/ \E i \in DOMAIN tr : ClearNext(i)
  \/ \E f \in ImageFiles \cup VideoFiles, isDaySlot \in BOOLEAN : SlotUpload(f, isDaySlot)
  \/ \E h \in DOMAIN hs : SlotCompressDone(h)
  \/ \E h \in DOMAIN hs : SlotCompressFail(h)
  \/ Download

UserSpec == Init /\ [][UserNext]_vars

\* compressImage on its own, for pictures of these widths and heights.
Dims == {1, 2, 3, 960, 1919, 1920, 1921, 2000, 2561, 3840, 3841, 4000}

DimNext == \E w \in Dims, h \in Dims : ImgOnload(w, h)

DimSpec == Init /\ [][DimNext]_vars

\* ------------------------------------------------- dock and settings modal
\* What the dock and the modal leave alone.  (The closeSettings calls the
\* upload and fetch handlers make are the closeSettings steps of DockSpec.)
appVars == <<bgImage, bgType, nextBgImage, nextBgType, isBgTransitioning, settings,
             timeHours, db, tr, hs, nTr, nHs, nRs, nTg, lastReq, mounted,
             revoked, nRl, shown, downloads, img, canvas, ai, stored, quota, crashed,
             hCap, tCap>>

\* Variant: the cleanup of the listener effect leaves the timeout alone.
DockCommitKeepsTimeout(open, closing, show, ct, tm) ==
  /\ isSettingsOpen' = open
  /\ isSettingsClosing' = closing
  /\ showControls' = show
  /\ controlsTimeout' = ct
  /\ closingTimer' = IF closing = isSettingsClosing THEN tm
                     ELSE IF closing THEN "pending"
                     ELSE IF tm = "pending" THEN "cleared" ELSE tm
  /\ UNCHANGED appVars

\* One render of the dock cells with the two effects that depend on them.
\* Listener effect (deps: resetControlsTimeout, handleGlobalClick, which
\* change with isSettingsOpen and showControls): its cleanup clears the
\* timeout controlsTimeoutRef names before the listeners are subscribed
\* again.  Safety effect (deps: isSettingsClosing): its cleanup clears the
\* 400 ms timeout and a new one is set while the modal is closing.  A render
\* caused by a click is committed with its effects before any other task.
DockCommit(open, closing, show, ct, tm) ==
  /\ isSettingsOpen' = open
  /\ isSettingsClosing' = closing
  /\ showControls' = show
  /\ controlsTimeout' = IF (open # isSettingsOpen \/ show # showControls)
                           /\ ct.status = "pending"
                        THEN [ct EXCEPT !.status = "cleared"] ELSE ct
  /\ closingTimer' = IF closing = isSettingsClosing THEN tm
                     ELSE IF closing THEN "pending"
                     ELSE IF tm = "pending" THEN "cleared" ELSE tm
  /\ UNCHANGED appVars

\* resetControlsTimeout as subscribed by the last run of the listener
\* effect, so with the isSettingsOpen of the last render.
resetControlsTimeout ==
  IF isSettingsOpen
  THEN DockCommit(isSettingsOpen, isSettingsClosing, showControls, controlsTimeout, closingTimer)
  ELSE DockCommit(isSettingsOpen, isSettingsClosing, TRUE,
                  [status |-> "pending", closOpen |-> isSettingsOpen], closingTimer)

\* The window's mousemove listener; a move that changes nothing is no step.
MouseMove ==
  /\ mounted
  /\ ~isSettingsOpen
  /\ resetControlsTimeout

\* The window's click listener for a click that is not on the settings
\* button; onPanel: the target is inside .interactive-panel or
\* .settings-modal.
handleGlobalClick(onPanel) ==
  /\ mounted
  /\ ~isSettingsOpen
  /\ IF onPanel THEN resetControlsTimeout
     ELSE IF showControls
          THEN DockCommit(isSettingsOpen, isSettingsClosing, FALSE,
                          IF controlsTimeout.status = "pending"
                          THEN [controlsTimeout EXCEPT !.status = "cleared"]
                          ELSE controlsTimeout, closingTimer)
          ELSE resetControlsTimeout

\* The 3 s timeout fires; hover: the pointer is over the dock.
ControlsTimeoutFires(hover) ==
  /\ controlsTimeout.status = "pending"
  /\ DockCommit(isSettingsOpen, isSettingsClosing,
                IF ~hover /\ ~controlsTimeout.closOpen THEN FALSE ELSE showControls,
                [controlsTimeout EXCEPT !.status = "fired"], closingTimer)

\* A click on the settings button of the dock: openSettings, and the
\* window's click listener for the same click (the target is inside the
\* dock).  The listener is the one subscribed before the click or, when the
\* render was committed first, the new one, which returns at once: the old
\* one shows the dock and sets a timeout that the effect's cleanup clears.
openSettings(oldListener) ==
  /\ mounted
  /\ IF oldListener /\ ~isSettingsOpen
     THEN DockCommit(TRUE, FALSE, TRUE, [status |-> "pending", closOpen |-> FALSE],
                     closingTimer)
     ELSE DockCommit(TRUE, FALSE, showControls, controlsTimeout, closingTimer)

closeSettings ==
  /\ mounted
  /\ ~isSettingsClosing
  /\ DockCommit(isSettingsOpen, TRUE, showControls, controlsTimeout, closingTimer)

\* onAnimationEnd of the modal container.
handleModalAnimationEnd ==
  /\ isSettingsOpen
  /\ isSettingsClosing
  /\ DockCommit(FALSE, FALSE, showControls, controlsTimeout, closingTimer)

\* The 400 ms timeout of the safety effect.
ClosingTimerFires ==
  /\ closingTimer = "pending"
  /\ DockCommit(FALSE, FALSE, showControls, controlsTimeout, "fired")

DockNext ==
  \/ Mount
  \/ MouseMove
  \/ \E onPanel \in BOOLEAN : handleGlobalClick(onPanel)
  \/ \E hover \in BOOLEAN : ControlsTimeoutFires(hover)
  \/ \E oldListener \in BOOLEAN : openSettings(oldListener)
  \/ closeSettings
  \/ handleModalAnimationEnd
  \/ ClosingTimerFires

DockSpec == Init /\ [][DockNext]_vars

\* generateAiBackground on its own.
AiNext == \E prompt \in Prompts, apiKey \in ApiKeys : Generate(prompt, apiKey)

AiSpec == Init /\ [][AiNext]_vars

\* Day/night sessions whose two slot URLs, as loaded from localStorage, are
\* any of these strings.
KindUrls ==
  { <<>>, DefaultBg, DefaultNightBg, compressImage("f1"),
    <<"https:", "cdn.example/a", ".mp4">>, <<"https:", "cdn.example/a", ".MP4">>,
    <<"https:", "cdn.example/a", ".webm">>, <<"https:", "cdn.example/a", ".ogg">>,
    <<"https:", "cdn.example/a", ".mp4", "?v=2">>, <<"https:", "cdn.example/a", ".png">>,
    <<"blob:", "slot", "9">>, <<"data:video", "v1">> }

KindInit ==
  /\ bgImage = DefaultBg
  /\ bgType = "image"
  /\ nextBgImage = Null
  /\ nextBgType = "image"
  /\ isBgTransitioning = FALSE
  /\ \E d \in KindUrls : \E n \in KindUrls \ {d} :
       settings = [enableDayNightMode |-> TRUE, dayBgUrl |-> d,
                   nightBgUrl |-> n, bingApiUrl |-> DefaultBingApiUrl]
  /\ timeHours = 0
  /\ db = EmptyDb
  /\ tr = <<>>
  /\ hs = <<>>
  /\ nTr = 0
  /\ nHs = 0
  /\ nRs = 0
  /\ nTg = 0
  /\ lastReq = Null
  /\ mounted = FALSE
  /\ revoked = {}
  /\ nRl = 0
  /\ shown = NotReloaded
  /\ downloads = <<>>
  /\ img = NoImage
  /\ canvas = NoImage
  /\ ai = NoAiCall
  /\ stored = stringify(settings)
  /\ quota = TRUE
  /\ hCap = MaxHandlers
  /\ tCap = MaxTransitions
  /\ isSettingsOpen = FALSE
  /\ isSettingsClosing = FALSE
  /\ showControls = TRUE
  /\ controlsTimeout = NoTimeout
  /\ closingTimer = "none"
  /\ crashed = FALSE

KindNext ==
  \/ Mount
  \/ Tick
  \/ \E i \in DOMAIN tr : PreloadDone(i)
  \/ \E i \in DOMAIN tr : PreloadError(i)
  \/ \E i \in DOMAIN tr : Frames(i)
  \/ \E i \in DOMAIN tr : TimerFire(i)
  \/ \E i \in DOMAIN tr : ClearNext(i)

KindSpec == KindInit /\ [][KindNext]_vars

\* Sessions that start from any content of the 'clockSettings' item, with
\* or without room in localStorage, and change the settings.
JsonItem(has, m, d) ==
  [text |-> "json", has |-> has,
   value |-> [enableDayNightMode |-> IF "enableDayNightMode" \in has THEN m ELSE FALSE,
              dayBgUrl |-> IF "dayBgUrl" \in has THEN d ELSE Null,
              nightBgUrl |-> IF "nightBgUrl" \in has THEN DefaultNightBg ELSE Null,
              bingApiUrl |-> IF "bingApiUrl" \in has THEN DefaultBingApiUrl ELSE Null]]

StoredItems ==
  {NoItem, BadItem}
  \cup {JsonItem(has, m, d) : has \in SUBSET SettingsFields, m \in BOOLEAN,
                              d \in {DefaultBg, compressImage("f1")}}

PrefInit ==
  /\ bgImage = DefaultBg
  /\ bgType = "image"
  /\ nextBgImage = Null
  /\ nextBgType = "image"
  /\ isBgTransitioning = FALSE
  /\ stored \in StoredItems
  /\ settings = load(stored)
  /\ quota \in BOOLEAN
  /\ hCap = MaxHandlers
  /\ tCap = MaxTransitions
  /\ isSettingsOpen = FALSE
  /\ isSettingsClosing = FALSE
  /\ showControls = TRUE
  /\ controlsTimeout = NoTimeout
  /\ closingTimer = "none"
  /\ crashed = FALSE
  /\ timeHours = 0
  /\ db = EmptyDb
  /\ tr = <<>>
  /\ hs = <<>>
  /\ nTr = 0
  /\ nHs = 0
  /\ nRs = 0
  /\ nTg = 0
  /\ lastReq = Null
  /\ mounted = FALSE
  /\ revoked = {}
  /\ nRl = 0
  /\ shown = NotReloaded
  /\ downloads = <<>>
  /\ img = NoImage
  /\ canvas = NoImage
  /\ ai = NoAiCall

PrefNext ==
  \/ Mount
  \/ Reload
  \/ ToggleDayNight
  \/ \E f \in VideoFiles : UploadVideo(f)
  \/ \E f \in ImageFiles \cup VideoFiles, isDaySlot \in BOOLEAN : SlotUpload(f, isDaySlot)
  \/ \E h \in DOMAIN hs : SlotCompressDone(h)
  \/ \E h \in DOMAIN hs : SlotCompressFail(h)
  \/ \E h \in DOMAIN hs : SaveAssetOk(h)
  \/ \E h \in DOMAIN hs : SaveTypeOk(h)
  \/ \E h \in DOMAIN hs : ReadType(h, "ok")
  \/ \E h \in DOMAIN hs : ReadAsset(h, "ok")
  \/ \E i \in DOMAIN tr : PreloadDone(i)
  \/ \E i \in DOMAIN tr : Frames(i)
  \/ \E i \in DOMAIN tr : TimerFire(i)
  \/ \E i \in DOMAIN tr : ClearNext(i)

PrefSpec == PrefInit /\ [][PrefNext]_vars

\* ------------------------------------------------------------- fairness
\* A session with day/night mode off and the switch left alone: the
\* ingestion paths, restoration and the engine.  Every pending callback
\* (promise settlement, frame, timeout) eventually runs.
IngestInit == Init /\ ~settings.enableDayNightMode

IngestNext ==
  \/ Mount
  \/ \E f \in ImageFiles : UploadImage(f)
  \/ \E f \in VideoFiles : UploadVideo(f)
  \/ FetchBg
  \/ \E h \in DOMAIN hs : CompressDone(h)
  \/ \E h \in DOMAIN hs : CompressFail(h)
  \/ \E h \in DOMAIN hs : ReaderLoadEnd(h)
  \/ \E h \in DOMAIN hs : SaveAssetOk(h)
  \/ \E h \in DOMAIN hs : SaveAssetFail(h)
  \/ \E h \in DOMAIN hs : SaveTypeOk(h)
  \/ \E h \in DOMAIN hs : SaveTypeFail(h)
  \/ \E h \in DOMAIN hs : FetchDone(h)
  \/ \E h \in DOMAIN hs : FetchFail(h)
  \/ \E h \in DOMAIN hs, o \in StoreOutcomes : ReadType(h, o)
  \/ \E h \in DOMAIN hs, o \in StoreOutcomes : ReadAsset(h, o)
  \/ \E i \in DOMAIN tr : PreloadDone(i)
  \/ \E i \in DOMAIN tr : PreloadError(i)
  \/ \E i \in DOMAIN tr : Frames(i)
  \/ \E i \in DOMAIN tr : TimerFire(i)
  \/ \E i \in DOMAIN tr : ClearNext(i)

Slots == 1..(MaxTransitions + MaxHandlers + MaxRestores)

CallbackFairness ==
  /\ WF_vars(Mount)
  /\ \A i \in Slots : WF_vars(i \in DOMAIN tr /\ (PreloadDone(i) \/ PreloadError(i)))
  /\ \A i \in Slots : WF_vars(i \in DOMAIN tr /\ Frames(i))
  /\ \A i \in Slots : WF_vars(i \in DOMAIN tr /\ TimerFire(i))
  /\ \A i \in Slots : WF_vars(i \in DOMAIN tr /\ ClearNext(i))

FairSpec == IngestInit /\ [][IngestNext]_vars /\ CallbackFairness

\* A session with day/night mode off and an empty store in which the user
\* uploads twice, an image and a video in either order, and no compression,
\* store request or preload fails.
RaceInit ==
  /\ bgImage = DefaultBg
  /\ bgType = "image"
  /\ nextBgImage = Null
  /\ nextBgType = "image"
  /\ isBgTransitioning = FALSE
  /\ settings = DefaultSettings
  /\ timeHours = 0
  /\ db = EmptyDb
  /\ tr = <<>>
  /\ hs = <<>>
  /\ nTr = 0
  /\ nHs = 0
  /\ nRs = 0
  /\ nTg = 0
  /\ lastReq = Null
  /\ mounted = FALSE
  /\ revoked = {}
  /\ nRl = 0
  /\ shown = NotReloaded
  /\ downloads = <<>>
  /\ img = NoImage
  /\ canvas = NoImage
  /\ ai = NoAiCall
  /\ stored = stringify(settings)
  /\ quota = TRUE
  /\ crashed = FALSE
  /\ hCap = MaxHandlers + 1
  /\ tCap = MaxTransitions
  /\ isSettingsOpen = FALSE
  /\ isSettingsClosing = FALSE
  /\ showControls = TRUE
  /\ controlsTimeout = NoTimeout
  /\ closingTimer = "none"

RaceNext ==
  \/ Mount
  \/ \E f \in ImageFiles : UploadImage(f)
  \/ \E f \in VideoFiles : UploadVideo(f)
  \/ \E h \in DOMAIN hs : CompressDone(h)
  \/ \E h \in DOMAIN hs : SaveAssetOk(h)
  \/ \E h \in DOMAIN hs : SaveTypeOk(h)
  \/ \E h \in DOMAIN hs : ReadType(h, "ok")
  \/ \E h \in DOMAIN hs : ReadAsset(h, "ok")
  \/ \E i \in DOMAIN tr : PreloadDone(i)
  \/ \E i \in DOMAIN tr : Frames(i)
  \/ \E i \in DOMAIN tr : TimerFire(i)
  \/ \E i \in DOMAIN tr : ClearNext(i)

RaceSpec == RaceInit /\ [][RaceNext]_vars

\* A session that starts in day/night mode with a background in the store:
\* the user picks an image file (one that neither compressImage nor
\* FileReader can read, in this session) and flips the day/night switch.
SwitchInit ==
  /\ bgImage = DefaultBg
  /\ bgType = "image"
  /\ nextBgImage = Null
  /\ nextBgType = "image"
  /\ isBgTransitioning = FALSE
  /\ settings = [DefaultSettings EXCEPT !.enableDayNightMode = TRUE]
  /\ timeHours = 0
  /\ db \in InitialDbs \ {EmptyDb}
  /\ tr = <<>>
  /\ hs = <<>>
  /\ nTr = 0
  /\ nHs = 0
  /\ nRs = 0
  /\ nTg = 0
  /\ lastReq = Null
  /\ mounted = FALSE
  /\ revoked = {}
  /\ nRl = 0
  /\ shown = NotReloaded
  /\ downloads = <<>>
  /\ img = NoImage
  /\ canvas = NoImage
  /\ ai = NoAiCall
  /\ stored = stringify(settings)
  /\ quota = TRUE
  /\ crashed = FALSE
  /\ hCap = MaxHandlers
  /\ tCap = MaxTransitions + 2
  /\ isSettingsOpen = FALSE
  /\ isSettingsClosing = FALSE
  /\ showControls = TRUE
  /\ controlsTimeout = NoTimeout
  /\ closingTimer = "none"

SwitchNext ==
  \/ Mount
  \/ ToggleDayNight
  \/ \E f \in ImageFiles : UploadImage(f)
  \/ \E h \in DOMAIN hs : CompressFail(h)
  \/ \E h \in DOMAIN hs : ReaderLoad(h, FALSE)
  \/ \E h \in DOMAIN hs : ReadType(h, "ok")
  \/ \E h \in DOMAIN hs : ReadAsset(h, "ok")
  \/ \E i \in DOMAIN tr : PreloadDone(i)
  \/ \E i \in DOMAIN tr : Frames(i)
  \/ \E i \in DOMAIN tr : TimerFire(i)
  \/ \E i \in DOMAIN tr : ClearNext(i)

SwitchSpec == SwitchInit /\ [][SwitchNext]_vars

\* Every awaited promise of a handler or of restoreBackground settles
\* (compressImage, FileReader, fetch, the IndexedDB requests).
HandlerFairness ==
  /\ \A h \in Slots : WF_vars(h \in DOMAIN hs /\ (CompressDone(h) \/ CompressFail(h)))
  /\ \A h \in Slots : WF_vars(h \in DOMAIN hs /\ ReaderLoadEnd(h))
  /\ \A h \in Slots : WF_vars(h \in DOMAIN hs /\ (SaveAssetOk(h) \/ SaveAssetFail(h)))
  /\ \A h \in Slots : WF_vars(h \in DOMAIN hs /\ (SaveTypeOk(h) \/ SaveTypeFail(h)))
  /\ \A h \in Slots : WF_vars(h \in DOMAIN hs /\ (FetchDone(h) \/ FetchFail(h)))
  /\ \A h \in Slots : WF_vars(h \in DOMAIN hs /\ \E o \in StoreOutcomes : ReadType(h, o))
  /\ \A h \in Slots : WF_vars(h \in DOMAIN hs /\ \E o \in StoreOutcomes : ReadAsset(h, o))

StoreFairSpec ==
  IngestInit /\ [][IngestNext]_vars /\ CallbackFairness /\ HandlerFairness

\* A session with day/night mode off in which the user ingests a background,
\* reloads the page and then leaves the fresh instance to restore.
ReloadNext ==
  \/ Mount
  \/ Reload
  \/ \E f \in ImageFiles : nRl = 0 /\ UploadImage(f)
  \/ \E f \in VideoFiles : nRl = 0 /\ UploadVideo(f)
  \/ nRl = 0 /\ FetchBg
  \/ \E h \in DOMAIN hs : CompressDone(h)
  \/ \E h \in DOMAIN hs : CompressFail(h)
  \/ \E h \in DOMAIN hs : ReaderLoadEnd(h)
  \/ \E h \in DOMAIN hs : SaveAssetOk(h)
  \/ \E h \in DOMAIN hs : SaveAssetFail(h)
  \/ \E h \in DOMAIN hs : SaveTypeOk(h)
  \/ \E h \in DOMAIN hs : SaveTypeFail(h)
  \/ \E h \in DOMAIN hs : FetchDone(h)
  \/ \E h \in DOMAIN hs : FetchFail(h)
  \/ \E h \in DOMAIN hs, o \in StoreOutcomes : ReadType(h, o)
  \/ \E h \in DOMAIN hs, o \in StoreOutcomes : ReadAsset(h, o)
  \/ \E i \in DOMAIN tr : PreloadDone(i)
  \/ \E i \in DOMAIN tr : PreloadError(i)
  \/ \E i \in DOMAIN tr : Frames(i)
  \/ \E i \in DOMAIN tr : TimerFire(i)
  \/ \E i \in DOMAIN tr : ClearNext(i)

ReloadSpec == IngestInit /\ [][ReloadNext]_vars

\* A session in day/night mode in which the wall clock runs through the
\* hours of the day; the two slot URLs are whatever localStorage held.
Hours == 0..23
SlotUrls == {DefaultBg, DefaultNightBg, compressImage("f1")}

ClockInit ==
  /\ bgImage = DefaultBg
  /\ bgType = "image"
  /\ nextBgImage = Null
  /\ nextBgType = "image"
  /\ isBgTransitioning = FALSE
  /\ \E d \in SlotUrls : \E n \in SlotUrls \ {d} :
       settings = [enableDayNightMode |-> TRUE, dayBgUrl |-> d,
                   nightBgUrl |-> n, bingApiUrl |-> DefaultBingApiUrl]
  /\ timeHours = 0
  /\ db = EmptyDb
  /\ tr = <<>>
  /\ hs = <<>>
  /\ nTr = 0
  /\ nHs = 0
  /\ nRs = 0
  /\ nTg = 0
  /\ lastReq = Null
  /\ mounted = FALSE
  /\ revoked = {}
  /\ nRl = 0
  /\ shown = NotReloaded
  /\ downloads = <<>>
  /\ img = NoImage
  /\ canvas = NoImage
  /\ ai = NoAiCall
  /\ stored = stringify(settings)
  /\ quota = TRUE
  /\ hCap = MaxHandlers
  /\ tCap = MaxTransitions
  /\ isSettingsOpen = FALSE
  /\ isSettingsClosing = FALSE
  /\ showControls = TRUE
  /\ controlsTimeout = NoTimeout
  /\ closingTimer = "none"
  /\ crashed = FALSE

ClockNext ==
  \/ Mount
  \/ \E h \in Hours : TickTo(h)
  \/ \E i \in DOMAIN tr : PreloadDone(i)
  \/ \E i \in DOMAIN tr : PreloadError(i)
  \/ \E i \in DOMAIN tr : Frames(i)
  \/ \E i \in DOMAIN tr : TimerFire(i)
  \/ \E i \in DOMAIN tr : ClearNext(i)

ClockSpec == ClockInit /\ [][ClockNext]_vars

\* ================================================================ claims
\* Phases of the spec's state machine, per invocation and for the engine.
Preloading(t) == t.pc = "preload"
Fading(t) == t.pc \in {"timer", "stuck"}    \* stuck: finalization never came
Finalizing(t) == t.pc = "clear"
Idle == \A i \in DOMAIN tr : tr[i].pc = "done"
TransitionState == <<bgImage, bgType, nextBgImage, nextBgType, isBgTransitioning>>

Sources ==
  {DefaultBg, DefaultNightBg}
  \cup {compressImage(f) : f \in ImageFiles \cup NetImages}
  \cup {readAsDataURL(f) : f \in ImageFiles}
  \cup {createObjectURL(w, k) : w \in {"upload", "restore"}, k \in Slots}
  \cup {fetchUrlOf(DefaultBingApiUrl, k) : k \in Slots}

C2_OneTransitionInFlight ==
  /\ Cardinality({i \in DOMAIN tr : tr[i].pc # "done"}) <= 1
  /\ Cardinality({i \in DOMAIN tr : Fading(tr[i])}) <= 1

\* ---- C3
\* C3: once every pending callback has fired, bgImage is the source of the
\* most recent accepted request.
C3_LatestRequestWins ==
  (mounted /\ tr = <<>> /\ hs = <<>> /\ lastReq # Null) => bgImage = lastReq

\* ---- C4
\* C4: a triggerBgTransition call whose source equals bgImage at the time of
\* the call starts no preload (and so changes nothing later either).
CallsWith(h, src) ==
  \/ ReaderLoad(h, TRUE) /\ src = readAsDataURL(hs[h].val[2])
  \/ ReaderLoad(h, FALSE) /\ src = Null
  \/ (SaveTypeOk(h) \/ SaveTypeFail(h)) /\ src = hs[h].url
  \/ ReadAsset(h, "ok") /\ src = db[KEY_BG]

C4_SameSourceIsNoop ==
  [][\A h \in DOMAIN hs : CallsWith(h, bgImage) => (tr' = tr /\ UNCHANGED TransitionState)]_vars

\* ---- C5
\* C5: when the fade timer of a transition fires, bgImage and bgType take
\* the values nextBgImage and nextBgType hold at that moment.
C5_CurrentTakesNext ==
  [][\A i \in DOMAIN tr : TimerFire(i) => (bgImage' = nextBgImage /\ bgType' = nextBgType)]_vars

\* ---- C6
\* C6: from the request to the preload event of a transition no cell of
\* TransitionState changes: a step taken while a transition is Preloading,
\* other than that transition's own preload event, leaves them unchanged.
C6_NoChangeWhilePreloading ==
  [][\A i \in DOMAIN tr :
        (Preloading(tr[i]) /\ ~PreloadDone(i) /\ ~PreloadError(i)) => UNCHANGED TransitionState]_vars

PhaseOf(k) ==
  IF \E i \in DOMAIN tr : tr[i].id = k
  THEN LET i == CHOOSE i \in DOMAIN tr : tr[i].id = k
       IN IF Preloading(tr[i]) THEN "Preloading"
          ELSE IF Fading(tr[i]) THEN "Fading"
          ELSE IF Finalizing(tr[i]) THEN "Finalizing" ELSE "IdleAgain"
  ELSE IF k <= nTr THEN "IdleAgain" ELSE "Idle"

PhaseOrder == { <<"Idle", "Preloading">>, <<"Preloading", "Fading">>,
                <<"Fading", "Finalizing">>, <<"Finalizing", "IdleAgain">> }

C8_PhasesInOrderAndComplete ==
  /\ [][\A k \in 1..MaxTransitions :
          PhaseOf(k)' = PhaseOf(k) \/ <<PhaseOf(k), PhaseOf(k)'>> \in PhaseOrder]_vars
  /\ [][\A i \in DOMAIN tr : TimerFire(i) => (bgImage' = tr[i].src /\ bgType' = tr[i].type)]_vars
  /\ \A s \in Sources :
       (\E i \in DOMAIN tr : Preloading(tr[i]) /\ tr[i].src = s) ~> (bgImage = s)
  /\ (~Idle) ~> (Idle /\ nextBgImage = Null /\ ~isBgTransitioning)

\* ---- C9
\* C9: no step performs a store.put while enableDayNightMode is true.
C9_NoStoreWriteInDayNightMode ==
  [][\A h \in DOMAIN hs :
        (SaveAssetOk(h) \/ SaveTypeOk(h)) => ~settings.enableDayNightMode]_vars

\* ---- C10
\* C10: with day/night mode off, an asset that becomes bgImage through a
\* transition requested by an ingestion path was put under both store keys
\* by that path (a put that was tried and failed is not held against it).
IngestionOrigins == {"image", "imageFallback", "video", "fetch"}

C10_IngestedCurrentIsPersisted ==
  [][\A i \in DOMAIN tr :
        (TimerFire(i) /\ tr[i].origin \in IngestionOrigins
           /\ ~tr[i].modeAtReq /\ ~settings.enableDayNightMode)
        => tr[i].persisted # "never"]_vars
RestoreSources ==
  {compressImage(f) : f \in ImageFiles \cup NetImages}
  \cup {fetchUrlOf(DefaultBingApiUrl, k) : k \in 1..MaxHandlers}
  \cup {createObjectURL("restore", k) : k \in 1..MaxRestores}

C12_RestoreOnStart ==
  /\ [][\A h \in DOMAIN hs : hs[h].kind = "restore" =>
          /\ ReadType(h, "ok") =>
                /\ hs'[h].pc = "readAsset"
                /\ hs'[h].type = IF db[KEY_BG_TYPE] = Absent THEN "undefined"
                                 ELSE db[KEY_BG_TYPE][1]
                /\ UNCHANGED <<db, tr, TransitionState>>
          /\ (ReadAsset(h, "ok") /\ db[KEY_BG] # Absent) =>
                /\ UNCHANGED <<db, TransitionState>>
                /\ db[KEY_BG] # hs[h].closBg =>
                      /\ Len(tr') = Len(tr) + 1
                      /\ Preloading(Last(tr'))
                      /\ IF Head(db[KEY_BG]) = "Blob"
                         THEN Head(Last(tr').src) = "blob:"
                         ELSE Last(tr').src = db[KEY_BG]
                      /\ Last(tr').type = IF hs[h].type = "undefined" THEN "image"
                                          ELSE hs[h].type
          /\ (ReadAsset(h, "ok") /\ db[KEY_BG] = Absent) =>
                UNCHANGED <<db, tr, TransitionState>>]_vars
  /\ [](mounted /\ db = EmptyDb /\ nHs = 0 => bgImage = DefaultBg /\ tr = <<>>)
  /\ (\E h \in DOMAIN hs : hs[h].kind = "restore") ~> (\A h \in DOMAIN hs : hs[h].kind # "restore")
  /\ [](\A i \in DOMAIN tr : tr[i].origin = "restore" => tr[i].src \in RestoreSources)
  /\ \A s \in RestoreSources : \A t \in {"image", "video"} :
       (\E i \in DOMAIN tr : /\ tr[i].origin = "restore" /\ Preloading(tr[i])
                              /\ tr[i].src = s /\ tr[i].type = t)
         ~> (bgImage = s /\ bgType = t)

C12_Witness ==
  \E i \in DOMAIN tr : /\ tr[i].origin = "restore" /\ Finalizing(tr[i])
                        /\ bgImage = tr[i].src /\ bgType = tr[i].type
                        /\ db[KEY_BG] # Absent /\ db[KEY_BG_TYPE] = <<tr[i].type>>
                        /\ nHs = 0

\* ---- C13
\* C13: while enableDayNightMode is true restoreBackground reads neither
\* store key and requests no transition.
C13_NoRestoreInDayNightMode ==
  [][\A h \in DOMAIN hs : \A o \in StoreOutcomes :
        (ReadType(h, o) \/ ReadAsset(h, o)) => ~settings.enableDayNightMode]_vars

\* ---- C14
\* The store holds the background the page showed at the reload: the page
\* was at rest, the stored kind is the kind shown, and the stored data is
\* the string shown or, for an object URL, a video file.
PersistedShown ==
  /\ nRl > 0
  /\ shown.settled
  /\ db[KEY_BG] # Absent
  /\ db[KEY_BG_TYPE] = <<shown.type>>
  /\ \/ db[KEY_BG] = shown.src
     \/ Head(db[KEY_BG]) = "Blob" /\ Head(shown.src) = "blob:"

\* C14 (as stated): restoring on the fresh instance requests, and finalizes
\* as bgImage, the very (source, kind) pair shown before the reload.
C14_RoundTripSamePair ==
  [][\A h \in DOMAIN hs :
        (ReadAsset(h, "ok") /\ PersistedShown /\ hs[h].type = shown.type) =>
          /\ Len(tr') = Len(tr) + 1
          /\ Last(tr').src = shown.src
          /\ Last(tr').type = shown.type]_vars

\* C14 (amended): the restored kind is the kind shown before the reload; the
\* restored source is the same string when a string was stored, and a newly
\* created object URL for the stored file when a video file was stored.
\* That pair becomes bgImage / bgType when the restoring transition finalizes.
C14_RoundTripSameAsset ==
  /\ [][\A h \in DOMAIN hs :
          (ReadAsset(h, "ok") /\ PersistedShown /\ hs[h].type = shown.type) =>
            /\ Len(tr') = Len(tr) + 1
            /\ Last(tr').type = shown.type
            /\ IF Head(db[KEY_BG]) = "Blob"
               THEN Head(Last(tr').src) = "blob:" /\ Last(tr').src # shown.src
               ELSE Last(tr').src = shown.src]_vars
  /\ [][\A i \in DOMAIN tr : (TimerFire(i) /\ tr[i].origin = "restore") =>
          (bgImage' = tr[i].src /\ bgType' = tr[i].type)]_vars

C14_Witness ==
  /\ PersistedShown
  /\ shown.type = "video"
  /\ \E i \in DOMAIN tr : /\ tr[i].origin = "restore" /\ Finalizing(tr[i])
                           /\ bgImage = tr[i].src /\ bgType = shown.type
                           /\ bgImage # shown.src

\* ---- C15
\* The kind every ingestion path writes next to a piece of data: 'video'
\* with an uploaded file, 'image' with a data URL or URL string.
KindOfData(d) == IF Head(d) = "Blob" THEN "video" ELSE "image"

\* C15: whenever no handler is between its two writes, the stored kind is
\* the kind of the stored data; and a restoration whose two reads both
\* succeed and find a value holds the kind that was written with the data.
C15_StorePairConsistent ==
  /\ []((hs = <<>> /\ db[KEY_BG] # Absent) => db[KEY_BG_TYPE] = <<KindOfData(db[KEY_BG])>>)
  /\ [][\A h \in DOMAIN hs :
          (ReadAsset(h, "ok") /\ db[KEY_BG] # Absent /\ hs[h].type # "undefined") =>
            hs[h].type = KindOfData(db[KEY_BG])]_vars

\* ---- C16
\* C16: a failed store write does not keep the handler from requesting its
\* transition, and a failed open or read during restoration ends the
\* restoration with TransitionState and the pending transitions unchanged.
C16_StoreFailureNotFatal ==
  /\ [][\A h \in DOMAIN hs :
          ((SaveTypeOk(h) \/ SaveTypeFail(h)) /\ hs[h].url # hs[h].closBg) =>
            /\ Len(tr') = Len(tr) + 1
            /\ Last(tr').src = hs[h].url
            /\ Last(tr').persisted \in {"written", "failed"}]_vars
  /\ [][\A i \in DOMAIN tr : (TimerFire(i) /\ tr[i].persisted = "failed") =>
          (bgImage' = tr[i].src /\ bgType' = tr[i].type)]_vars
  /\ [][\A h \in DOMAIN hs : \A o \in StoreOutcomes \ {"ok"} :
          (ReadType(h, o) \/ ReadAsset(h, o)) =>
            /\ hs' = Remove(hs, h)
            /\ tr' = tr
            /\ UNCHANGED TransitionState]_vars

\* ---- C17
\* C17: the desired source depends on the hour and the two slot URLs only:
\* it is the day URL when 6 <= hour < 18 and the night URL otherwise (hours
\* 6 and 17 are day, 18 and 5 are night), and every request the scheduler
\* makes is for that source.
C17_DesiredSourceByHour ==
  /\ [](TargetUrl(settings, timeHours) =
          IF timeHours \in 6..17 THEN settings.dayBgUrl ELSE settings.nightBgUrl)
  /\ [](\A h \in Hours :
          TargetUrl(settings, h) =
            IF h \in 6..17 THEN settings.dayBgUrl ELSE settings.nightBgUrl)
  /\ [](TargetUrl(settings, 6) = settings.dayBgUrl /\ TargetUrl(settings, 17) = settings.dayBgUrl
        /\ TargetUrl(settings, 18) = settings.nightBgUrl /\ TargetUrl(settings, 5) = settings.nightBgUrl)
  /\ [][(Len(tr') > Len(tr) /\ Last(tr').origin = "scheduler") =>
          Last(tr').src = (IF timeHours' \in 6..17 THEN settings'.dayBgUrl
                           ELSE settings'.nightBgUrl)]_vars

C17_Witness ==
  /\ timeHours = 18
  /\ bgImage = settings.dayBgUrl
  /\ bgImage # DefaultBg
  /\ \E i \in DOMAIN tr : tr[i].origin = "scheduler" /\ tr[i].src = settings.nightBgUrl

\* ---- C18
\* C18: a render in which day/night mode is on and the desired source is
\* bgImage or nextBgImage accepts no request from the scheduler.
C18_SuppressedWhenCurrentOrNext ==
  [][(settings'.enableDayNightMode
      /\ TargetUrl(settings', timeHours') \in {bgImage', nextBgImage'}) =>
        ~(nTr' > nTr /\ Last(tr').origin = "scheduler")]_vars

\* The scheduler's transition is Finalizing: the effect was re-evaluated when
\* nextBgImage became the desired source and again when bgImage did.
C18_Witness ==
  /\ settings.enableDayNightMode
  /\ nTr = 1
  /\ bgImage = TargetUrl(settings, timeHours)
  /\ nextBgImage = TargetUrl(settings, timeHours)
  /\ \E i \in DOMAIN tr : tr[i].origin = "scheduler" /\ Finalizing(tr[i])

\* ---- C19
\* C19: the scheduler makes no request for a source it has already
\* requested while that transition is still in flight (Preloading, Fading
\* or Finalizing) or after it has completed (the source is bgImage).
C19_NoRepeatedRequest ==
  [][(nTr' > nTr /\ Last(tr').origin = "scheduler") =>
        /\ bgImage' # Last(tr').src
        /\ \A i \in DOMAIN tr :
             (tr[i].origin = "scheduler" /\ tr[i].pc # "done") => tr[i].src # Last(tr').src]_vars

\* ---- C20
\* C20: when a transition finalizes and the object URL that was bgImage is
\* then held by neither bgImage nor nextBgImage, it has been passed to
\* URL.revokeObjectURL; and no object URL is released while it is displayed.
C20_ObjectUrlReleased ==
  /\ [][\A i \in DOMAIN tr :
          (TimerFire(i) /\ Head(bgImage) = "blob:"
           /\ bgImage' # bgImage /\ nextBgImage' # bgImage) => bgImage \in revoked']_vars
  /\ [](\A u \in revoked : u # bgImage /\ u # nextBgImage)

\* ---- C21
\* C21: in every reachable state bgImage is neither null nor the empty
\* string.
C21_CurrentAlwaysDefined == bgImage # Null /\ bgImage # <<>>

\* ---- C22
\* The callbacks of a triggerBgTransition invocation.
EngineStep ==
  \E i \in DOMAIN tr :
     PreloadDone(i) \/ PreloadError(i) \/ Frames(i) \/ TimerFire(i) \/ ClearNext(i)

\* C22: every step that is not a callback of a triggerBgTransition
\* invocation (the day/night effect, restoration, the upload, fetch and
\* download handlers, the switch, the clock) leaves bgImage, bgType,
\* nextBgImage, nextBgType and isBgTransitioning unchanged.
C22_OnlyEngineMutates ==
  [][EngineStep \/ UNCHANGED TransitionState]_vars

\* A slot upload has rewritten the slot the scheduler shows, a download
\* link was clicked and the scheduler's request is not past Preloading.
C22_Witness ==
  /\ downloads # <<>>
  /\ nHs = 1
  /\ settings.dayBgUrl = compressImage("f1")
  /\ \E i \in DOMAIN tr : tr[i].origin = "scheduler" /\ Preloading(tr[i])
                           /\ tr[i].src = compressImage("f1")
  /\ bgImage = DefaultBg

\* ---- C23
\* r is n / d rounded to the nearest integer.
Nearest(r, n, d) == 2 * r * d - d <= 2 * n /\ 2 * n <= 2 * r * d + d

\* C23: a picture of w x h with neither side above 1920 keeps its size;
\* otherwise the longer side of the canvas is exactly 1920 and the other is
\* other * 1920 / longer rounded to the nearest integer, so that no side of
\* the canvas exceeds 1920; 4000 x 2000 gives 1920 x 960.
C23_CompressionBound ==
  /\ [](img # NoImage =>
          LET w == img[1]
              h == img[2]
          IN /\ (w <= 1920 /\ h <= 1920) => canvas = <<w, h>>
             /\ (w > 1920 \/ h > 1920) =>
                  /\ w > h => canvas[1] = 1920 /\ Nearest(canvas[2], h * 1920, w)
                  /\ w <= h => canvas[2] = 1920 /\ Nearest(canvas[1], w * 1920, h)
             /\ canvas[1] <= 1920 /\ canvas[2] <= 1920)
  /\ [](img = <<4000, 2000>> => canvas = <<1920, 960>>)
  /\ canvasSize(4000, 2000) = <<1920, 960>>

C23_Witness == img = <<4000, 2000>> /\ canvas = <<1920, 960>>

\* ---- C24
\* The source is the output of compressImage (a JPEG data URL).
Compressed(url) == \E c \in ImageFiles \cup NetImages : url = compressImage(c)

\* C24: a day/night field holds its default, a video's object URL or an
\* output of compressImage; no other image source is ever written to it.
C24_SlotsHoldCompressedImages ==
  /\ settings.dayBgUrl = DefaultBg \/ isVideoUrl(settings.dayBgUrl)
       \/ Compressed(settings.dayBgUrl)
  /\ settings.nightBgUrl = DefaultNightBg \/ isVideoUrl(settings.nightBgUrl)
       \/ Compressed(settings.nightBgUrl)

\* ---- C25
\* C25: no handler awaits compressImage with a video file; a video upload
\* waits for the store with the file itself and its object URL, or (in
\* day/night mode, and for a slot upload) puts the object URL in the slot at
\* once.
C25_NoCompressionOfVideo ==
  /\ [](\A h \in DOMAIN hs : hs[h].pc = "compress" => hs[h].val[2] \in ImageFiles)
  /\ [][\A f \in VideoFiles :
          /\ (UploadVideo(f) /\ ~settings.enableDayNightMode) =>
               /\ Last(hs').pc = "save1" /\ Last(hs').val = <<"Blob", f>>
               /\ Head(Last(hs').url) = "blob:"
          /\ (UploadVideo(f) /\ settings.enableDayNightMode) =>
               /\ hs' = hs
               /\ "blob:" \in {Head(settings'.dayBgUrl), Head(settings'.nightBgUrl)}
          /\ \A d \in BOOLEAN : SlotUpload(f, d) =>
               /\ hs' = hs
               /\ Head(IF d THEN settings'.dayBgUrl ELSE settings'.nightBgUrl) = "blob:"]_vars

C25_Witness ==
  /\ settings.nightBgUrl = createObjectURL("slot", 1)
  /\ hs = <<>>
  /\ nHs = 1

\* ---- C26
\* C26: when the fetch or the compression of the fetched bytes fails, the
\* handler goes on with the request URL (cache-busting parameter included)
\* as its source.  Day/night mode off: the URL is put under KEY_BG, 'image'
\* under KEY_BG_TYPE, and a transition to the URL with kind image is
\* requested.  Day/night mode on: the URL is written to the slot of the
\* current period.
C26_FetchFallback ==
  [][\A h \in DOMAIN hs :
        LET fetchUrl == hs[h].url
        IN /\ FetchFail(h) =>
                /\ fetchUrl[Len(fetchUrl) - 1] = "?t="
                /\ IF ~hs[h].closMode
                   THEN /\ h \in DOMAIN hs' /\ hs'[h].pc = "save1"
                        /\ hs'[h].val = fetchUrl /\ hs'[h].url = fetchUrl
                        /\ hs'[h].type = "image"
                   ELSE /\ settings' = SetSlot(settings, Hour \in 6..17, fetchUrl)
                        /\ hs' = Remove(hs, h)
           /\ (hs[h].kind = "fetch" /\ SaveAssetOk(h)) => db' = Put(db, KEY_BG, hs[h].val)
           /\ (hs[h].kind = "fetch" /\ SaveTypeOk(h)) =>
                /\ db' = Put(db, KEY_BG_TYPE, <<"image">>)
                /\ Len(tr') = Len(tr) + 1
                /\ Last(tr').src = fetchUrl /\ Last(tr').type = "image"
                /\ Preloading(Last(tr'))]_vars

C26_Witness ==
  /\ ~settings.enableDayNightMode
  /\ db[KEY_BG] = fetchUrlOf(DefaultBingApiUrl, 1)
  /\ db[KEY_BG_TYPE] = <<"image">>
  /\ \E i \in DOMAIN tr : tr[i].origin = "fetch" /\ tr[i].src = db[KEY_BG]
                           /\ tr[i].type = "image" /\ Preloading(tr[i])

\* ---- C27
\* C27: generateAiBackground called with an empty or missing API key ends
\* with the missing-key error, sends no request, and changes neither the
\* transition state nor the settings nor the store.
C27_MissingKeyFailsFast ==
  [][\A prompt \in Prompts : \A apiKey \in {<<>>, Null} :
        Generate(prompt, apiKey) =>
          /\ ai'.outcome = MissingKeyError
          /\ ai'.requests = ai.requests
          /\ UNCHANGED <<TransitionState, settings, db>>]_vars

C27_Witness ==
  /\ ai.apiKey = <<>>
  /\ ai.outcome = MissingKeyError
  /\ ai.requests = 0

\* ---- C28
LocalPlayable(url) == url # <<>> /\ Head(url) \in {"blob:", "data:video"}
\* String.prototype.toLowerCase on the last token.
LowerCase(t) == IF t = ".MP4" THEN ".mp4" ELSE IF t = ".WEBM" THEN ".webm"
                ELSE IF t = ".OGG" THEN ".ogg" ELSE t

\* C28 (as stated): a source is Video if and only if it begins with 'blob:'
\* or 'data:video' or ends in '.mp4', '.webm' or '.ogg'; every other
\* source, the empty string included, is Image; the scheduler requests
\* each URL with that kind.
C28_KindByExactExtension ==
  /\ [](\A url \in KindUrls :
          isVideoUrl(url) <=>
            (LocalPlayable(url) \/ (url # <<>> /\ Last(url) \in {".mp4", ".webm", ".ogg"})))
  /\ [][(nTr' > nTr /\ Last(tr').origin = "scheduler") =>
          LET url == Last(tr').src
          IN Last(tr').type =
               IF LocalPlayable(url) \/ Last(url) \in {".mp4", ".webm", ".ogg"}
               THEN "video" ELSE "image"]_vars

\* C28 (amended): the same with the extension compared without regard to
\* letter case.
C28_KindByExtensionAnyCase ==
  /\ [](\A url \in KindUrls :
          isVideoUrl(url) <=>
            (LocalPlayable(url)
             \/ (url # <<>> /\ LowerCase(Last(url)) \in {".mp4", ".webm", ".ogg"})))
  /\ [](~isVideoUrl(<<>>))
  /\ [][(nTr' > nTr /\ Last(tr').origin = "scheduler") =>
          LET url == Last(tr').src
          IN Last(tr').type =
               IF LocalPlayable(url) \/ LowerCase(Last(url)) \in {".mp4", ".webm", ".ogg"}
               THEN "video" ELSE "image"]_vars

C28_Witness ==
  \E i \in DOMAIN tr : /\ tr[i].origin = "scheduler" /\ tr[i].type = "video"
                        /\ Last(tr[i].src) = ".MP4"
                        /\ bgImage = tr[i].src /\ bgType = "video"


\* ------------------------------------------------------------------ C29
\* C29 as stated: a page opened after any sequence of settings changes
\* starts with the last settings value that was set; with no item, or an
\* item that does not parse, it starts with the default settings; an item
\* without enableDayNightMode, dayBgUrl or nightBgUrl gives these fields
\* their defaults.
C29_FreshLoadReturnsLastSet ==
  /\ [][nRl' # nRl => settings' = settings]_vars
  /\ [](~mounted /\ stored.text # "json" => settings = DefaultSettings)
  /\ [](~mounted /\ stored.text = "json" =>
          \A f \in {"enableDayNightMode", "dayBgUrl", "nightBgUrl"} :
            f \notin stored.has => settings[f] = DefaultSettings[f])

\* C29, amended: a page opened after any sequence of settings changes starts
\* with the last settings value whose save succeeded: every value set is in
\* the item as long as no save failed, a failed save leaves the item as it
\* was, and the new page reads the item.  The two default rules are as
\* stated.
C29_FreshLoadReturnsLastSaved ==
  /\ [](~crashed => load(stored) = settings)
  /\ [][crashed' /\ ~crashed => stored' = stored]_vars
  /\ [][nRl' # nRl => settings' = load(stored) /\ stored' = stored]_vars
  /\ [](~mounted /\ stored.text # "json" => settings = DefaultSettings)
  /\ [](~mounted /\ stored.text = "json" =>
          \A f \in {"enableDayNightMode", "dayBgUrl", "nightBgUrl"} :
            f \notin stored.has => settings[f] = DefaultSettings[f])

\* A page opened after the mode was toggled and a slot was given a compressed
\* image, every save having succeeded: it starts with these settings.
C29_Witness ==
  /\ nRl = 1
  /\ ~mounted
  /\ nTg = 1
  /\ Compressed(settings.dayBgUrl) \/ Compressed(settings.nightBgUrl)
  /\ settings = load(stored)

\* ------------------------------------------------------------------ C30
\* C30: a save of the settings that fails is survived: the component stays
\* mounted with the new settings (no error leaves the save-settings effect).
C30_FailedSaveSurvived == ~crashed


\* ------------------------------------------------------------------ C31
\* C31: isBgTransitioning becomes true only in the second frame callback of
\* an invocation that has set nextBgImage to its source in an earlier step;
\* the step that sets nextBgImage leaves the flag as it is, and the frame
\* callbacks of an invocation never run before it has set nextBgImage.
C31_FadeAfterNextAndFrames ==
  [][/\ (isBgTransitioning' /\ ~isBgTransitioning) =>
          \E i \in DOMAIN tr : /\ Frames(i)
                               /\ ~Preloading(tr[i])
                               /\ nextBgImage' = nextBgImage
     /\ (nextBgImage' # nextBgImage /\ nextBgImage' # Null) =>
          isBgTransitioning' = isBgTransitioning
     /\ \A i \in DOMAIN tr : Preloading(tr[i]) => tr[i].raf = "idle"]_vars

\* The frame callbacks of an invocation have raised the flag while its
\* source is in nextBgImage and its 1500 ms timeout is pending.
C31_Witness ==
  /\ isBgTransitioning
  /\ \E i \in DOMAIN tr : /\ tr[i].pc = "timer"
                          /\ tr[i].raf = "done"
                          /\ nextBgImage = tr[i].src


\* ------------------------------------------------------------------ C32
\* C32: with day/night mode off, no handler suspended and no transition in
\* flight, a record written to the store describes the background shown:
\* the stored kind is bgType and the stored data is bgImage or, for an
\* object URL, a video file.  (Stated for backgrounds the upload handlers
\* requested: one that restoreBackground requested is left aside.)
C32_StoreDescribesCurrent ==
  (/\ mounted /\ ~settings.enableDayNightMode /\ tr = <<>> /\ hs = <<>>
   /\ db[KEY_BG] # Absent
   /\ bgImage \notin {createObjectURL("restore", k) : k \in 1..MaxRestores}) =>
    /\ db[KEY_BG_TYPE] = <<bgType>>
    /\ \/ db[KEY_BG] = bgImage
       \/ db[KEY_BG][1] = "Blob" /\ bgImage[1] = "blob:"


\* ------------------------------------------------------------------ C33
\* C33: in day/night mode the scheduler converges.  Its safety part: when
\* no handler is suspended and no callback of any triggerBgTransition
\* invocation will ever run again, bgImage is the URL of the current period
\* and nextBgImage is null (a state at rest that is anything else stays so
\* for as long as the hour and the two URLs stay as they are).
C33_SchedulerConverges ==
  (/\ mounted /\ ~crashed
   /\ settings.enableDayNightMode
   /\ hs = <<>>
   /\ \A i \in DOMAIN tr : tr[i].pc = "stuck" /\ tr[i].raf = "done") =>
    /\ bgImage = TargetUrl(settings, timeHours)
    /\ nextBgImage = Null


\* ------------------------------------------------------------------ C34
\* C34: every request the scheduler makes is for the URL of the period the
\* wall clock is in (new Date().getHours() is Hour throughout the session):
\* the day URL while 6 <= Hour < 18, the night URL otherwise, also before
\* the first tick of the 1 s interval.
C34_RequestsFollowWallClock ==
  [][(Len(tr') > Len(tr) /\ Last(tr').origin = "scheduler") =>
        Last(tr').src = (IF Hour >= 6 /\ Hour < 18 THEN settings'.dayBgUrl
                         ELSE settings'.nightBgUrl)]_vars


\* ------------------------------------------------------------------ C35
\* C35: while isBgTransitioning is true, nextBgImage is not null.
C35_FadeImpliesNext == isBgTransitioning => nextBgImage # Null


\* ------------------------------------------------------------------ C36
\* C36: bgImage and bgType change together, to the source and kind of one
\* triggerBgTransition invocation (in its 1500 ms timeout), and so do
\* nextBgImage and nextBgType whenever nextBgImage is given a value (after
\* the invocation's preload); the source and kind an invocation holds are
\* the pair it was called with.  Initially the pair is the default.
C36_PairsNeverMixed ==
  [][/\ (<<bgImage, bgType>>' # <<bgImage, bgType>>) =>
          \E i \in DOMAIN tr : /\ TimerFire(i)
                               /\ bgImage' = tr[i].src
                               /\ bgType' = tr[i].type
     /\ (nextBgImage' # Null /\ <<nextBgImage, nextBgType>>' # <<nextBgImage, nextBgType>>) =>
          \E i \in DOMAIN tr : /\ PreloadDone(i) \/ PreloadError(i)
                               /\ nextBgImage' = tr[i].src
                               /\ nextBgType' = tr[i].type
     /\ \A i \in DOMAIN tr : \A j \in DOMAIN tr' :
          tr'[j].id = tr[i].id => (tr'[j].src = tr[i].src /\ tr'[j].type = tr[i].type)]_vars

\* Two invocations of different kinds overlap: the video's timeout has made
\* it the background while the image occupies nextBgImage.
C36_Witness ==
  \E i, j \in DOMAIN tr :
     /\ tr[i].type = "image" /\ tr[i].pc = "timer"
     /\ tr[j].type = "video" /\ tr[j].pc = "clear"
     /\ bgImage = tr[j].src /\ bgType = "video"
     /\ nextBgImage = tr[i].src /\ nextBgType = "image"


\* ------------------------------------------------------------------ C37
\* C37: the restoreBackground effect runs again whenever enableDayNightMode
\* changes.  Switched to disabled, it starts reading the two store keys;
\* switched to enabled, that run reads nothing.  The transition a
\* restoration requests makes the stored background bgImage: its invocation
\* never ends (its 1500 ms callback throwing) with bgImage left as it was.
C37_RestorationRerunOnSwitch ==
  /\ [][(settings'.enableDayNightMode # settings.enableDayNightMode) =>
          IF settings'.enableDayNightMode
          THEN hs' = hs
          ELSE /\ Len(hs') = Len(hs) + 1
               /\ Last(hs').kind = "restore"
               /\ Last(hs').pc = "readType"]_vars
  /\ [](\A i \in DOMAIN tr : tr[i].origin = "restore" => tr[i].pc # "stuck")


\* ------------------------------------------------------------------ C38
\* C38: an image whose width and height are both at least 1 gives a canvas
\* whose width and height are both at least 1.
C38_NoZeroSizedCanvas ==
  (img[1] >= 1 /\ img[2] >= 1) => (canvas[1] >= 1 /\ canvas[2] >= 1)


\* ------------------------------------------------------------------ C39
\* C39: while the settings modal is open the dock is not hidden: a step
\* taken with isSettingsOpen true leaves showControls true, and no auto-hide
\* timeout is pending then (the one set before the modal was opened has
\* been cleared), so none can fire with the isSettingsOpen it captured.
C39_DockStaysWhileSettingsOpen ==
  /\ [][(isSettingsOpen /\ showControls) => showControls']_vars
  /\ [][\A hover \in BOOLEAN :
          (ControlsTimeoutFires(hover) /\ isSettingsOpen) => showControls' = showControls]_vars
  /\ [](isSettingsOpen => controlsTimeout.status # "pending")

\* The modal is open with the dock on screen, and the timeout set before it
\* was opened has been cleared.
C39_Witness ==
  /\ isSettingsOpen
  /\ showControls
  /\ controlsTimeout.status = "cleared"

====
